---- MODULE Spec2Model ----
(***************************************************************************)
(* Model of the playertoo IPTV client.                                     *)
(*                                                                         *)
(* Part 1: OptimizedXtreamAPI (services/optimizedApi): the cache key       *)
(* builder, saveToCache / getFromCache, fetchWithCache with its            *)
(* AbortController registry, initialize and reset.                         *)
(*                                                                         *)
(* AsyncStorage runs its operations one after the other in the order they  *)
(* were issued and calls back in that order.  A storage operation therefore*)
(* takes effect in the step that issues it, and the awaiting calls resume  *)
(* in FIFO order (storageQueue).  Every storage operation may fail.        *)
(* JSON.stringify / JSON.parse of a cache record {data, timestamp,         *)
(* expiresAt} whose data came out of JSON.parse and whose numbers are      *)
(* finite gives the record back, so storage holds the records themselves.  *)
(*                                                                         *)
(* Part 2: XtreamAPI (services/api): the streaming URL builders and        *)
(* getOptimalMovieStreamingUrl.                                            *)
(*                                                                         *)
(* Part 3: VideoPlayer (components/VideoPlayer): the format-switch retry,  *)
(* the load timeout, the playback status handler and the close of the      *)
(* player.  A handler runs to completion and the component renders again   *)
(* before the next event is delivered, so a handler sees the state the     *)
(* previous one left; the callback of the load timeout was created by the  *)
(* first render (an effect with no dependencies) and sees the state of     *)
(* that render.                                                            *)
(*                                                                         *)
(* Part 4: the catalog operations of OptimizedXtreamAPI (getVodStreams and *)
(* getVodInfo stand for the eight, which share one shape) and clearCache.  *)
(*                                                                         *)
(* Part 5: AuthProvider (login, logout, clearContentCaches) beside the     *)
(* loadData calls of useCachedData, over the same AsyncStorage.            *)
(*                                                                         *)
(* Part 6: HistoryService (services/history): addToHistory and             *)
(* removeFromHistory, one after the other and overlapping.                 *)
(*                                                                         *)
(* Part 7: useInitialData: the hooks of the catalog lists and              *)
(* refreshAllData.                                                         *)
(*                                                                         *)
(* Part 8: clearCache over a storage with the caches of several            *)
(* identities.                                                             *)
(***************************************************************************)
EXTENDS Integers, Sequences, FiniteSets, TLC

(***************************************************************************)
(* Bounds                                                                  *)
(***************************************************************************)
\* fetchWithCache calls in one behaviour of Spec
MaxCalls == 3
\* fetchWithCache calls in one behaviour of SpecFresh
MaxFreshCalls == 2
\* fetchWithCache calls in one behaviour of SpecIdent
MaxIdentCalls == 2
\* clock steps in one behaviour of SpecFresh
MaxTicks == 2
\* playback errors and presses of the format button in one player session
MaxEvents == 3
\* catalog operations in one behaviour of SpecCatalog
MaxCatalogCalls == 2
\* loadData calls of useCachedData in one behaviour of SpecAuth
MaxLoads == 2
\* addToHistory / removeFromHistory calls in one behaviour of SpecHistory
MaxHistoryCalls == 2

(***************************************************************************)
(* CACHE_DURATIONS                                                         *)
(***************************************************************************)
CACHE_DURATIONS ==
  [CATEGORIES |-> 60 * 60 * 1000,
   STREAMS    |-> 30 * 60 * 1000,
   INFO       |-> 15 * 60 * 1000]

\* one clock step: the shortest freshness duration
TickMs == CACHE_DURATIONS.INFO

(***************************************************************************)
(* Inputs                                                                  *)
(***************************************************************************)
\* credentials handed to initialize(); the login form only requires a
\* non-empty user name and a server URL that starts with http:// or https://
Account1 == [username |-> "u", password |-> "p", server_url |-> "http://g"]
Account2 == [username |-> "u", password |-> "p", server_url |-> "http://h@http://g"]
Account3 == [username |-> "u@http://h", password |-> "p", server_url |-> "http://g"]
Accounts == {Account1, Account2, Account3}

Calls == 1 .. (IF MaxCalls > MaxFreshCalls
                 THEN IF MaxCalls > MaxIdentCalls THEN MaxCalls ELSE MaxIdentCalls
                 ELSE IF MaxFreshCalls > MaxIdentCalls THEN MaxFreshCalls ELSE MaxIdentCalls)

\* the catalog operations that are modelled: logical key, API action with
\* its query parameters, freshness duration
Requests ==
  { [key |-> "vod_streams_all", action |-> "get_vod_streams",
     params |-> "", duration |-> CACHE_DURATIONS.STREAMS],
    [key |-> "vod_info_7", action |-> "get_vod_info",
     params |-> "&vod_id=7", duration |-> CACHE_DURATIONS.INFO] }

LogicalKeys == { r.key : r \in Requests }

VARIABLES
  username,          \* OptimizedXtreamAPI.username
  password,          \* OptimizedXtreamAPI.password
  baseUrl,           \* OptimizedXtreamAPI.baseUrl
  isAuthenticated,   \* OptimizedXtreamAPI.isAuthenticated
  abortControllers,  \* OptimizedXtreamAPI.abortControllers: logical key -> controller (0: none)
  aborted,           \* the controllers whose signal is aborted
  storage,           \* AsyncStorage: cache key -> record
  storageQueue,      \* calls awaiting the completion of a storage operation
  now,               \* Date.now()
  calls              \* the fetchWithCache calls, one record per call

engineVars == << username, password, baseUrl, isAuthenticated, abortControllers,
                 aborted, storage, storageQueue, now, calls >>

VARIABLES
  xtreamApi,         \* XtreamAPI: username, password, baseUrl, isAuthenticated
  movieDetails,      \* the argument of getOptimalMovieStreamingUrl
  streamingUrl       \* what getOptimalMovieStreamingUrl returned

apiVars == << xtreamApi, movieDetails, streamingUrl >>

VARIABLES
  mounted,           \* the VideoPlayer is mounted (videoRef.current is set)
  streamType,        \* props.streamType
  streamId,          \* props.streamId (0: none)
  source,            \* props.source.uri
  isBuffering,       \* useState(true)
  isInRetryFlow,     \* useState(false)
  currentFormat,     \* useState('m3u8')
  playbackAttempt,   \* useState(0)
  loadTimeoutRef,    \* the 15 s timer: pending, fired, cleared, null
  flows,             \* the calls of retryWithDifferentFormat that got past the guard
  media,             \* the media resource: loaded, unloaded, released
  loads,             \* the loadAsync calls of the retries, in order
  onErrorCalls,      \* how often props.onError was called
  events             \* playback errors and button presses delivered so far

playerVars == << mounted, streamType, streamId, source, isBuffering,
                 isInRetryFlow, currentFormat, playbackAttempt, loadTimeoutRef,
                 flows, media, loads, onErrorCalls, events >>

VARIABLES
  clearCacheCall     \* the clearCache call of OptimizedXtreamAPI

catalogVars == << clearCacheCall >>

VARIABLES
  authUser,          \* AuthProvider: const [user, setUser] = useState<User | null>
  authCall,          \* the login or logout call of AuthProvider
  hookLoads,         \* the loadData calls of useCachedData, one record per call
  hookData,          \* useCachedData: const [data, setData] = useState(null), per key
  refreshAt          \* refreshAllData was called when hookLoads had this length

authVars == << authUser, authCall, hookLoads, hookData, refreshAt >>

VARIABLES
  historyCalls       \* the addToHistory / removeFromHistory calls of HistoryService

historyVars == << historyCalls >>

\* the variables outside OptimizedXtreamAPI
appVars == << apiVars, playerVars, authVars, historyVars >>
\* the variables the fetchWithCache actions do not touch
otherVars == << appVars, catalogVars >>
\* the variables outside XtreamAPI's URL builders
outsideApi == << engineVars, playerVars, catalogVars, authVars, historyVars >>
\* the variables outside the VideoPlayer
outsidePlayer == << engineVars, apiVars, catalogVars, authVars, historyVars >>

vars == << engineVars, apiVars, playerVars, catalogVars, authVars, historyVars >>

(***************************************************************************)
(* Values                                                                  *)
(***************************************************************************)
NoController == 0
NoEntry  == [tag |-> "none"]
IOError  == [tag |-> "ioerror"]
Null     == [tag |-> "null"]
NoData   == [tag |-> "nodata"]
NoResult == [kind |-> "none", data |-> NoData]

\* the JSON document the server returns for url; call tells the responses
\* of different requests apart
Response(url, c) == [tag |-> "json", url |-> url, call |-> c]

(***************************************************************************)
(* Pure helpers of OptimizedXtreamAPI                                      *)
(***************************************************************************)
getApiUrl(base, user, pass, action, params) ==
  base \o "/player_api.php?username=" \o user \o "&password=" \o pass
       \o "&action=" \o action \o params

getCacheKey(user, base, key) ==
  "cache:" \o user \o "@" \o base \o ":" \o key

\* every string getCacheKey can produce in this model
CacheKeys ==
  { getCacheKey(u, s, k) :
      u \in {a.username : a \in Accounts} \cup {""},
      s \in {a.server_url : a \in Accounts} \cup {""}, k \in LogicalKeys }

\* saveToCache: the record that is stored
CacheDataNoDuration(data, t, duration) ==
  [tag |-> "entry", data |-> data, timestamp |-> t, expiresAt |-> t]
CacheData(data, t, duration) ==
  [tag |-> "entry", data |-> data, timestamp |-> t, expiresAt |-> t + duration]

\* getFromCache: isValid
IsValidStale(cache, t) == cache.expiresAt >= t
IsValidNever(cache, t) == FALSE
IsValid(cache, t) == cache.expiresAt > t

\* getFromCache: the value it resolves to, from what getItem gave
getFromCache(got, t) ==
  IF got.tag = "entry"
    THEN [tag |-> "cached", data |-> got.data, isValid |-> IsValid(got, t)]
    ELSE Null

\* fetchWithCache, catch block: the outcome of the call after a failed fetch
CatchAlwaysThrow(cached) == [kind |-> "error", data |-> NoData]
CatchNeverThrow(cached) ==
  [kind |-> "value", data |-> IF cached # Null THEN cached.data ELSE NoData]
CatchFetchError(cached) ==
  IF cached # Null
    THEN [kind |-> "value", data |-> cached.data]
    ELSE [kind |-> "error", data |-> NoData]

\* fetchWithCache after await this.saveToCache(...): saveToCache catches the
\* failure of setItem, so the response is returned either way
SaveThrows(response, writeFailed, cached) ==
  IF writeFailed THEN CatchFetchError(cached)
                 ELSE [kind |-> "value", data |-> response]
SaveOutcome(response, writeFailed, cached) ==
  [kind |-> "value", data |-> response]

\* optimizedFetch with signal: controller.signal; a fetch whose signal is
\* aborted rejects
SignalIgnored(c, abortedSet) == FALSE
SignalAborted(c, abortedSet) == c \in abortedSet

\* fetchWithCache, finally block
DeleteController(ctls, key) == [ctls EXCEPT ![key] = NoController]

(***************************************************************************)
(* The state of one fetchWithCache call                                    *)
(***************************************************************************)
\* pc: idle -> reading (await getFromCache) -> fetching (await
\* optimizedFetch) -> saving (await saveToCache) -> done
IdleCall ==
  [pc |-> "idle",
   key |-> "", url |-> "", duration |-> 0,   \* the arguments
   ident |-> << "", "" >>,     \* (username, baseUrl) when the call was made
   got |-> NoEntry,            \* what AsyncStorage.getItem gave
   lookupAt |-> 0,             \* Date.now() in getFromCache
   cached |-> Null,            \* const cached
   fetched |-> FALSE,          \* optimizedFetch was called
   cancelledBy |-> 0,          \* the call that aborted this call's controller
   cancelledIn |-> "",         \* where this call was then: fetching, saving
   failure |-> "none",         \* how the fetch failed: abort, network
   response |-> NoData,        \* const response
   wident |-> << "", "" >>,    \* (username, baseUrl) in saveToCache
   wrote |-> FALSE,            \* setItem stored the response
   writeFailed |-> FALSE,      \* setItem failed
   result |-> NoResult]        \* what the call resolved or rejected with

\* JavaScript values that are not strings or numbers of the model
Undefined == [tag |-> "undefined"]
\* getOptimalMovieStreamingUrl has not been called
NotCalled == [tag |-> "notcalled"]

\* XtreamAPI after construction
InitXtreamApi ==
  xtreamApi = [username |-> "", password |-> "", baseUrl |-> "",
               isAuthenticated |-> FALSE]

\* no movie has been opened
NoMovie == movieDetails = Null /\ streamingUrl = NotCalled

\* no VideoPlayer has been mounted
NoPlayer ==
  /\ mounted = FALSE
  /\ streamType = "vod"
  /\ streamId = 0
  /\ source = ""
  /\ isBuffering = TRUE
  /\ isInRetryFlow = FALSE
  /\ currentFormat = "m3u8"
  /\ playbackAttempt = 0
  /\ loadTimeoutRef = "null"
  /\ flows = << >>
  /\ media = "released"
  /\ loads = << >>
  /\ onErrorCalls = 0
  /\ events = 0

\* clearCache has not been called
IdleClear == [pc |-> "idle", type |-> "", keys |-> {}, failed |-> FALSE,
              outcome |-> "pending"]
NoCatalog == clearCacheCall = IdleClear

\* AuthProvider before a user is loaded, no hook has run
IdleAuth == [pc |-> "idle", op |-> "", credentials |-> Null, previous |-> Null,
             keys |-> {}, cleared |-> FALSE, outcome |-> "pending"]
IdleLoad == [pc |-> "idle", key |-> "", cacheKey |-> "", got |-> NoEntry,
             isMounted |-> FALSE, data |-> NoData, wrote |-> FALSE,
             before |-> FALSE, api |-> Null]
\* refreshAllData has not been called
NotRefreshed == 0 - 1
NoAuth ==
  /\ authUser = Null
  /\ authCall = IdleAuth
  /\ hookLoads = << >>
  /\ hookData = << >>
  /\ refreshAt = NotRefreshed

\* HistoryService has not been called
NoHistory == historyCalls = << >>

InitEngine ==
  /\ username = ""
  /\ password = ""
  /\ baseUrl = ""
  /\ isAuthenticated = FALSE
  /\ abortControllers = [k \in LogicalKeys |-> NoController]
  /\ aborted = {}
  /\ storage = [k \in CacheKeys |-> NoEntry]
  /\ storageQueue = << >>
  /\ now = 0
  /\ calls = [c \in Calls |-> IdleCall]

\* the application after start with nobody logged in and no player open
Init ==
  InitEngine /\ InitXtreamApi /\ NoMovie /\ NoPlayer /\ NoCatalog /\ NoAuth /\ NoHistory

(***************************************************************************)
(* initialize and reset                                                    *)
(***************************************************************************)
Initialize(u, p, s) ==
  /\ username' = u
  /\ password' = p
  /\ baseUrl' = s
  /\ isAuthenticated' = TRUE
  /\ UNCHANGED << abortControllers, aborted, storage, storageQueue, now, calls >>
  /\ UNCHANGED otherVars

\* the controllers reset() aborts: Object.values(this.abortControllers)
Registered(ctls) == { ctls[k] : k \in LogicalKeys } \ {NoController}

\* reset() as a function of the api object
ResetKeepRegistry(api) ==
  [username |-> "", password |-> "", baseUrl |-> "", isAuthenticated |-> FALSE,
   abortControllers |-> api.abortControllers,
   aborted |-> api.aborted \cup Registered(api.abortControllers)]
ResetOp(api) ==
  [username |-> "", password |-> "", baseUrl |-> "", isAuthenticated |-> FALSE,
   abortControllers |-> [k \in LogicalKeys |-> NoController],
   aborted |-> api.aborted \cup Registered(api.abortControllers)]

Api ==
  [username |-> username, password |-> password, baseUrl |-> baseUrl,
   isAuthenticated |-> isAuthenticated,
   abortControllers |-> abortControllers, aborted |-> aborted]

Reset ==
  /\ username' = ResetOp(Api).username
  /\ password' = ResetOp(Api).password
  /\ baseUrl' = ResetOp(Api).baseUrl
  /\ isAuthenticated' = ResetOp(Api).isAuthenticated
  /\ abortControllers' = ResetOp(Api).abortControllers
  /\ aborted' = ResetOp(Api).aborted
  /\ UNCHANGED << storage, storageQueue, now, calls >>
  /\ UNCHANGED otherVars

(***************************************************************************)
(* fetchWithCache                                                          *)
(***************************************************************************)
\* A catalog operation (getVodStreams, getVodInfo) builds key and url and
\* calls fetchWithCache, which runs up to the await of AsyncStorage.getItem
\* inside getFromCache.  readOk: the outcome of getItem.
Start(c, r, readOk) ==
  /\ calls[c].pc = "idle"
  /\ \A d \in Calls : d < c => calls[d].pc # "idle"
  /\ calls' = [calls EXCEPT ![c] =
       [@ EXCEPT !.pc = "reading",
                 !.key = r.key,
                 !.url = getApiUrl(baseUrl, username, password, r.action, r.params),
                 !.duration = r.duration,
                 !.ident = << username, baseUrl >>,
                 !.got = IF readOk
                           THEN storage[getCacheKey(username, baseUrl, r.key)]
                           ELSE IOError]]
  /\ storageQueue' = Append(storageQueue, c)
  /\ UNCHANGED << username, password, baseUrl, isAuthenticated,
                  abortControllers, aborted, storage, now >>
  /\ UNCHANGED otherVars

\* getFromCache resolves; a valid entry is returned, otherwise the previous
\* controller of the key is aborted, a new one registered and the fetch issued
ReadDone(c) ==
  /\ calls[c].pc = "reading"
  /\ storageQueue # << >> /\ Head(storageQueue) = c
  /\ storageQueue' = Tail(storageQueue)
  /\ LET cached == getFromCache(calls[c].got, now)
         key == calls[c].key
         prev == abortControllers[key]
     IN IF cached # Null /\ cached.isValid
          THEN /\ calls' = [calls EXCEPT ![c] =
                    [@ EXCEPT !.pc = "done", !.cached = cached, !.lookupAt = now,
                              !.result = [kind |-> "value", data |-> cached.data]]]
               /\ UNCHANGED << abortControllers, aborted >>
          ELSE /\ aborted' = IF prev # NoController
                               THEN aborted \cup {prev} ELSE aborted
               /\ abortControllers' = [abortControllers EXCEPT ![key] = c]
               /\ calls' = [d \in Calls |->
                    IF d = c
                      THEN [calls[c] EXCEPT !.pc = "fetching", !.cached = cached,
                                            !.lookupAt = now, !.fetched = TRUE]
                    ELSE IF d = prev
                      THEN [calls[d] EXCEPT !.cancelledBy = c,
                                            !.cancelledIn = calls[d].pc]
                    ELSE calls[d]]
  /\ UNCHANGED << username, password, baseUrl, isAuthenticated, storage, now >>
  /\ UNCHANGED otherVars

\* optimizedFetch resolves with the parsed response; saveToCache runs up to
\* the await of AsyncStorage.setItem.  writeOk: the outcome of setItem.
FetchOk(c, writeOk) ==
  /\ calls[c].pc = "fetching"
  /\ ~SignalAborted(c, aborted)
  /\ LET response == Response(calls[c].url, c)
         cacheKey == getCacheKey(username, baseUrl, calls[c].key)
     IN /\ storage' = IF writeOk
                        THEN [storage EXCEPT ![cacheKey] =
                                CacheData(response, now, calls[c].duration)]
                        ELSE storage
        /\ calls' = [calls EXCEPT ![c] =
             [@ EXCEPT !.pc = "saving", !.response = response,
                       !.wident = << username, baseUrl >>,
                       !.wrote = writeOk, !.writeFailed = ~writeOk]]
  /\ storageQueue' = Append(storageQueue, c)
  /\ UNCHANGED << username, password, baseUrl, isAuthenticated,
                  abortControllers, aborted, now >>
  /\ UNCHANGED otherVars

\* saveToCache resolves (a failure of setItem was caught inside it); the
\* response is returned and the finally block runs
SaveDone(c) ==
  /\ calls[c].pc = "saving"
  /\ storageQueue # << >> /\ Head(storageQueue) = c
  /\ storageQueue' = Tail(storageQueue)
  /\ calls' = [calls EXCEPT ![c] =
       [@ EXCEPT !.pc = "done",
                 !.result = SaveOutcome(calls[c].response, calls[c].writeFailed,
                                        calls[c].cached)]]
  /\ abortControllers' = DeleteController(abortControllers, calls[c].key)
  /\ UNCHANGED << username, password, baseUrl, isAuthenticated, aborted,
                  storage, now >>
  /\ UNCHANGED otherVars

\* optimizedFetch rejects: the signal was aborted, the network failed or the
\* status was not 2xx.  The catch block and the finally block run.
FetchFail(c) ==
  /\ calls[c].pc = "fetching"
  /\ calls' = [calls EXCEPT ![c] =
       [@ EXCEPT !.pc = "done",
                 !.failure = IF SignalAborted(c, aborted) THEN "abort" ELSE "network",
                 !.result = CatchFetchError(calls[c].cached)]]
  /\ abortControllers' = DeleteController(abortControllers, calls[c].key)
  /\ UNCHANGED << username, password, baseUrl, isAuthenticated, aborted,
                  storage, storageQueue, now >>
  /\ UNCHANGED otherVars

\* time passes
Tick ==
  /\ now < MaxTicks * TickMs
  /\ now' = now + TickMs
  /\ UNCHANGED << username, password, baseUrl, isAuthenticated,
                  abortControllers, aborted, storage, storageQueue, calls >>
  /\ UNCHANGED otherVars

(***************************************************************************)
(* Spec: one account, any interleaving of up to MaxCalls calls with reset   *)
(* and a new initialize; the network may fail, storage does not, and no    *)
(* entry expires.                                                          *)
(***************************************************************************)
Next ==
  \/ /\ ~isAuthenticated
     /\ Initialize(Account1.username, Account1.password, Account1.server_url)
  \/ Reset
  \/ \E c \in 1 .. MaxCalls, r \in Requests : isAuthenticated /\ Start(c, r, TRUE)
  \/ \E c \in Calls : ReadDone(c)
  \/ \E c \in Calls : FetchOk(c, TRUE)
  \/ \E c \in Calls : SaveDone(c)
  \/ \E c \in Calls : FetchFail(c)

Spec == Init /\ [][Next]_vars

(***************************************************************************)
(* SpecFresh: one account, the clock runs, storage and network may fail.    *)
(***************************************************************************)
NextFresh ==
  \/ /\ ~isAuthenticated
     /\ Initialize(Account1.username, Account1.password, Account1.server_url)
  \/ \E c \in 1 .. MaxFreshCalls, r \in Requests, readOk \in BOOLEAN :
        isAuthenticated /\ Start(c, r, readOk)
  \/ \E c \in Calls : ReadDone(c)
  \/ \E c \in Calls, writeOk \in BOOLEAN : FetchOk(c, writeOk)
  \/ \E c \in Calls : SaveDone(c)
  \/ \E c \in Calls : FetchFail(c)
  \/ Tick

SpecFresh == Init /\ [][NextFresh]_vars

(***************************************************************************)
(* SpecIdent: the identity changes while calls are outstanding.             *)
(***************************************************************************)
NextIdent ==
  \/ \E a \in Accounts : Initialize(a.username, a.password, a.server_url)
  \/ Reset
  \/ \E c \in 1 .. MaxIdentCalls, r \in Requests :
        isAuthenticated /\ Start(c, r, TRUE)
  \/ \E c \in Calls : ReadDone(c)
  \/ \E c \in Calls : FetchOk(c, TRUE)
  \/ \E c \in Calls : SaveDone(c)
  \/ \E c \in Calls : FetchFail(c)

SpecIdent == Init /\ [][NextIdent]_vars

(***************************************************************************)
(* Properties of fetchWithCache                                            *)
(***************************************************************************)
Value(d) == [kind |-> "value", data |-> d]
Resumed(c) == calls[c].pc \notin {"idle", "reading"}
\* the lookup of call c found an entry
Found(c) == Resumed(c) /\ calls[c].got.tag = "entry"
\* the cache key a call wrote its response under
WrittenKey(c) == getCacheKey(calls[c].wident[1], calls[c].wident[2], calls[c].key)

\* C1: a call whose lookup finds an entry with expiresAt later than the time
\* of the lookup returns that entry's data and issues no network fetch
C1_Freshness ==
  \A c \in Calls :
    (Found(c) /\ calls[c].got.expiresAt > calls[c].lookupAt)
      => /\ calls[c].pc = "done"
         /\ ~calls[c].fetched
         /\ calls[c].result = Value(calls[c].got.data)

\* a call made after the clock moved was served from an entry still fresh
C1_Witness ==
  \E c \in Calls :
    /\ Found(c) /\ calls[c].got.expiresAt > calls[c].lookupAt
    /\ calls[c].lookupAt > calls[c].got.timestamp
    /\ calls[c].pc = "done"

\* C2: a call whose fetch failed (network error, bad status or abort) after
\* its lookup had found an expired entry resolves with that entry's data
C2_FallbackToStale ==
  \A c \in Calls :
    (calls[c].pc = "done" /\ calls[c].failure # "none" /\ Found(c))
      => calls[c].result = Value(calls[c].got.data)

\* a fetch failed on the network with a stale entry at hand
C2_Witness ==
  \E c \in Calls :
    /\ calls[c].pc = "done" /\ calls[c].failure = "network" /\ Found(c)
    /\ calls[c].got.expiresAt <= calls[c].lookupAt

\* C3: a call whose fetch failed and whose lookup had found no entry rejects,
\* and no cache record holds anything from that call
C3_PropagateFailure ==
  \A c \in Calls :
    (calls[c].pc = "done" /\ calls[c].failure # "none" /\ calls[c].got.tag = "none")
      => /\ calls[c].result.kind = "error"
         /\ ~calls[c].wrote
         /\ \A k \in CacheKeys :
              storage[k].tag = "entry" => storage[k].data.call # c

\* a fetch failed with nothing in the cache
C3_Witness ==
  \E c \in Calls :
    /\ calls[c].pc = "done" /\ calls[c].failure # "none"
    /\ calls[c].got.tag = "none" /\ calls[c].result.kind = "error"

\* C9: a lookup that fails in storage counts as a miss and the network fetch
\* is issued; a response whose cache write fails is still what the call
\* returns; a call only ever rejects because its fetch failed
C9_StoreFailuresSwallowed ==
  \A c \in Calls :
    /\ (Resumed(c) /\ calls[c].got = IOError)
         => (calls[c].fetched /\ calls[c].cached = Null)
    /\ (calls[c].pc = "done" /\ calls[c].writeFailed)
         => calls[c].result = Value(Response(calls[c].url, c))
    /\ calls[c].result.kind = "error" => calls[c].failure # "none"

\* one call went through a failed lookup and a failed cache write and
\* returned the fetched response
C9_Witness ==
  \E c \in Calls :
    /\ calls[c].pc = "done" /\ calls[c].got = IOError /\ calls[c].writeFailed
    /\ calls[c].result = Value(calls[c].response)

\* C10: a stored entry has expiresAt = timestamp + duration of its resource,
\* and a call whose lookup finds an entry issues a network fetch exactly when
\* the time of the lookup is at or after the entry's expiresAt
C10_ExpiryTiming ==
  /\ \A k \in CacheKeys :
       storage[k].tag = "entry" =>
         storage[k].expiresAt =
           storage[k].timestamp + calls[storage[k].data.call].duration
  /\ \A c \in Calls :
       Found(c) =>
         /\ calls[c].got.expiresAt = calls[c].got.timestamp + calls[c].duration
         /\ calls[c].fetched <=> calls[c].lookupAt >= calls[c].got.expiresAt

\* a lookup at exactly expiresAt of a 30 minute entry went to the network
C10_Witness ==
  \E c \in Calls :
    /\ Found(c) /\ calls[c].duration = CACHE_DURATIONS.STREAMS
    /\ calls[c].lookupAt = calls[c].got.expiresAt
    /\ calls[c].fetched

(***************************************************************************)
(* Properties of the AbortController registry                              *)
(***************************************************************************)
\* the fetch of call c succeeded or was cut short by an abort only
NoNetworkFailure(c) == calls[c].failure # "network"
\* no call other than i and j went to the network for the key of j
OthersQuiet(i, j) ==
  \A k \in Calls \ {i, j} : ~(calls[k].fetched /\ calls[k].key = calls[j].key)

InFlight(k) ==
  { c \in Calls : calls[c].pc = "fetching" /\ calls[c].key = k /\ c \notin aborted }

\* C6: at every moment at most one network fetch that is not aborted is
\* outstanding for a key
C6_AtMostOneInFlight ==
  \A k \in LogicalKeys : Cardinality(InFlight(k)) <= 1

\* C8: reset() aborts every registered controller and leaves the registry
\* empty, and resetting the resulting state again changes nothing
C8_ResetClearsAll ==
  [][ Reset =>
        /\ \A k \in LogicalKeys : abortControllers'[k] = NoController
        /\ Registered(abortControllers) \subseteq aborted'
        /\ ResetOp(Api') = Api' ]_vars

\* a fetch that no other call superseded is aborted, with the registry empty
\* and the credentials cleared
C8_Witness ==
  \E c \in Calls :
    /\ calls[c].pc = "fetching" /\ c \in aborted /\ calls[c].cancelledBy = 0
    /\ Registered(abortControllers) = {}
    /\ ~isAuthenticated /\ username = ""

(***************************************************************************)
(* Properties of the cache namespace                                       *)
(***************************************************************************)
\* C4: an entry a call reads was written while the same (username, baseUrl)
\* was active as when the call was made
C4_NamespaceIsolation ==
  \A c \in Calls :
    Found(c) => calls[calls[c].got.data.call].wident = calls[c].ident

\* C7: a response is never stored under the cache key of an identity other
\* than the one its request was made for (a write made after reset(), under
\* the empty identity, is not counted)
C7_NoCrossIdentityWrite ==
  \A c \in Calls :
    calls[c].wrote => calls[c].wident \in {calls[c].ident, << "", "" >>}

(***************************************************************************)
(* Part 2: XtreamAPI, the streaming URLs                                     *)
(***************************************************************************)
\* JavaScript numbers and strings as they come out of the provider's JSON
Num(n) == [tag |-> "number", n |-> n]
Str(s) == [tag |-> "string", s |-> s]
\* the number NaN
NaN == -1

\* the truthiness of a value: !v is ~Truthy(v)
Truthy(v) ==
  CASE v.tag = "number" -> v.n # 0 /\ v.n # NaN
    [] v.tag = "string" -> v.s # ""
    [] v.tag = "object" -> TRUE
    [] OTHER -> FALSE

\* obj?.field
Chain(obj, field) ==
  IF obj.tag = "object" THEN obj[field] ELSE Undefined

\* String.prototype.toLowerCase for the letters that occur in extensions
LowerChar(ch) ==
  CASE ch = "M" -> "m" [] ch = "P" -> "p" [] ch = "T" -> "t"
    [] ch = "S" -> "s" [] ch = "K" -> "k" [] ch = "V" -> "v"
    [] ch = "U" -> "u" [] OTHER -> ch

RECURSIVE toLowerCase(_)
toLowerCase(s) ==
  IF s = "" THEN ""
  ELSE LowerChar(SubSeq(s, 1, 1)) \o toLowerCase(SubSeq(s, 2, Len(s)))

\* the value of a decimal digit, NaN for any other character
Digit(ch) ==
  CASE ch = "0" -> 0 [] ch = "1" -> 1 [] ch = "2" -> 2 [] ch = "3" -> 3
    [] ch = "4" -> 4 [] ch = "5" -> 5 [] ch = "6" -> 6 [] ch = "7" -> 7
    [] ch = "8" -> 8 [] ch = "9" -> 9 [] OTHER -> NaN

\* the digits of s from position i on, read after acc
RECURSIVE ParseDigits(_, _, _)
ParseDigits(s, i, acc) ==
  IF i > Len(s) \/ Digit(SubSeq(s, i, i)) = NaN THEN acc
  ELSE ParseDigits(s, i + 1, 10 * acc + Digit(SubSeq(s, i, i)))

\* parseInt(v, 10) for a non-negative integer or a string
parseInt(v) ==
  CASE v.tag = "number" -> v.n
    [] v.tag = "string" ->
         IF v.s = "" \/ Digit(SubSeq(v.s, 1, 1)) = NaN THEN NaN
         ELSE ParseDigits(v.s, 1, 0)
    [] OTHER -> NaN

\* `${n}` for a number
NumberToString(n) == IF n = NaN THEN "NaN" ELSE ToString(n)

getLiveStreamingUrl(api, id) ==
  api.baseUrl \o "/live/" \o api.username \o "/" \o api.password \o "/"
    \o NumberToString(id) \o ".m3u8"

getVodStreamingUrl(api, id, format) ==
  api.baseUrl \o "/movie/" \o api.username \o "/" \o api.password \o "/"
    \o NumberToString(id) \o "." \o format

getSeriesStreamingUrl(api, id, format) ==
  api.baseUrl \o "/series/" \o api.username \o "/" \o api.password \o "/"
    \o NumberToString(id) \o "." \o format

\* getPreferredStreamFormat; the caller passes container_extension || ''
PreferDeclaredCase(containerExtension) ==
  IF containerExtension = "" THEN "m3u8"
  ELSE IF containerExtension = "mp4" THEN "mp4"
  ELSE IF containerExtension = "ts" THEN "ts"
  ELSE "m3u8"
getPreferredStreamFormat(containerExtension) ==
  IF containerExtension = "" THEN "m3u8"
  ELSE LET ext == toLowerCase(containerExtension)
       IN IF ext = "mp4" THEN "mp4"
          ELSE IF ext = "ts" THEN "ts"
          ELSE "m3u8"

getOptimalMovieStreamingUrl(api, details) ==
  IF ~Truthy(details) THEN ""
  ELSE LET movie_data == Chain(details, "movie_data")
           id == Chain(movie_data, "stream_id")
       IN IF ~Truthy(id) THEN ""
          ELSE LET ce == Chain(movie_data, "container_extension")
                   containerExtension == IF Truthy(ce) THEN ce.s ELSE ""
                   format == getPreferredStreamFormat(containerExtension)
                   direct == Chain(movie_data, "direct_source")
               IN IF Truthy(direct) THEN direct.s
                  ELSE getVodStreamingUrl(api, parseInt(id), format)

\* the movie details a provider can send: stream_id is a number or a
\* numeric string, container_extension and direct_source may be missing
StreamIds == {Undefined, Num(0), Num(7), Str("12")}
ContainerExtensions ==
  {Undefined, Str(""), Str("mp4"), Str("MP4"), Str("ts"), Str("Ts"),
   Str("mkv"), Str("m3u8")}
DirectSources == {Undefined, Str(""), Str("http://d/v.mkv")}
MovieDetails ==
  {Null, [tag |-> "object", movie_data |-> Undefined]}
    \cup { [tag |-> "object",
            movie_data |-> [tag |-> "object", stream_id |-> i,
                            container_extension |-> e, direct_source |-> d]] :
            i \in StreamIds, e \in ContainerExtensions, d \in DirectSources }

\* XtreamAPI.initialize
InitializeXtreamApi(a) ==
  [username |-> a.username, password |-> a.password, baseUrl |-> a.server_url,
   isAuthenticated |-> TRUE]

\* a user is logged in and the details of a movie have arrived
InitUrl ==
  /\ InitEngine /\ NoPlayer /\ NoCatalog /\ NoAuth /\ NoHistory
  /\ \E a \in Accounts : xtreamApi = InitializeXtreamApi(a)
  /\ movieDetails \in MovieDetails
  /\ streamingUrl = NotCalled

\* a caller (handlePlayMovie) asks for the URL of the movie
CallGetOptimalMovieStreamingUrl ==
  /\ streamingUrl = NotCalled
  /\ streamingUrl' = Str(getOptimalMovieStreamingUrl(xtreamApi, movieDetails))
  /\ UNCHANGED << outsideApi, xtreamApi, movieDetails >>

NextUrl == CallGetOptimalMovieStreamingUrl

SpecUrl == InitUrl /\ [][NextUrl]_vars

\* the fields of the item, undefined when the item has no movie_data
DirectSource == Chain(Chain(movieDetails, "movie_data"), "direct_source")
StreamId == Chain(Chain(movieDetails, "movie_data"), "stream_id")
ContainerExtension == Chain(Chain(movieDetails, "movie_data"), "container_extension")

\* C17: for an item with a direct source URL getOptimalMovieStreamingUrl
\* returns that URL unchanged, and it returns the empty string only for an
\* item that has neither a direct source nor a stream id
C17_DirectSourcePrecedence ==
  streamingUrl # NotCalled =>
    /\ Truthy(DirectSource) => streamingUrl.s = DirectSource.s
    /\ streamingUrl.s = "" => (~Truthy(DirectSource) /\ ~Truthy(StreamId))

\* the format C18 names for a declared container extension
C18_Format(e) ==
  IF e \in {Str("mp4"), Str("MP4")} THEN "mp4"
  ELSE IF e \in {Str("ts"), Str("Ts")} THEN "ts"
  ELSE "m3u8"

formats == << "m3u8", "mp4", "ts" >>

\* formats.indexOf(f), counted from 1
indexOf(f) == CHOOSE i \in 1 .. Len(formats) : formats[i] = f

\* formats[(currentIndex + 1) % formats.length]
nextFormatOf(f) == formats[(indexOf(f) % Len(formats)) + 1]

\* s ends with suffix
EndsWith(s, suffix) ==
  Len(s) >= Len(suffix) /\ SubSeq(s, Len(s) - Len(suffix) + 1, Len(s)) = suffix

\* uri.replace(/\.(e1|e2|..)$/, replacement)
ReplaceExtension(uri, extensions, replacement) ==
  IF \E e \in extensions : EndsWith(uri, "." \o e)
    THEN LET e == CHOOSE x \in extensions : EndsWith(uri, "." \o x)
         IN SubSeq(uri, 1, Len(uri) - Len(e) - 1) \o replacement
    ELSE uri

\* if (streamId): a number that is neither 0 nor NaN
HasStreamIdAlways(id) == TRUE
HasStreamId(id) == Truthy(Num(id))

\* retryWithDifferentFormat: newUrl
newUrlOf(api, type, id, uri, nextFormat) ==
  IF type = "live"
    THEN ReplaceExtension(uri, {"m3u8", "ts"},
           IF nextFormat = "mp4" THEN ".ts" ELSE "." \o nextFormat)
  ELSE IF type = "vod" /\ HasStreamId(id)
    THEN getVodStreamingUrl(api, id, nextFormat)
  ELSE IF type = "series" /\ HasStreamId(id)
    THEN getSeriesStreamingUrl(api, id, nextFormat)
  ELSE ReplaceExtension(uri, {"m3u8", "mp4", "ts"}, "." \o nextFormat)

\* what the screens hand to the player: live/player, movies/detail,
\* series/player, and series/player with an episode id that is not a number
StreamSources(api) ==
  { [streamType |-> "live", streamId |-> 7, uri |-> getLiveStreamingUrl(api, 7)],
    [streamType |-> "vod", streamId |-> 7, uri |-> getVodStreamingUrl(api, 7, "m3u8")],
    [streamType |-> "series", streamId |-> 7,
     uri |-> getSeriesStreamingUrl(api, 7, "m3u8")],
    [streamType |-> "series", streamId |-> NaN,
     uri |-> getSeriesStreamingUrl(api, NaN, "m3u8")] }

\* the state a render of the component sees
FirstRender ==
  [isBuffering |-> TRUE, isInRetryFlow |-> FALSE, currentFormat |-> "m3u8",
   playbackAttempt |-> 0]
LatestRender ==
  [isBuffering |-> isBuffering, isInRetryFlow |-> isInRetryFlow,
   currentFormat |-> currentFormat, playbackAttempt |-> playbackAttempt]

\* the render whose variables the callback of the load timeout reads: the
\* effect that creates it has no dependencies and runs after the first render
TimeoutScope(first, latest) == first

\* the player has been mounted, its effects have run: the load timeout is
\* pending and the Video element loads props.source
InitPlayer ==
  /\ InitEngine /\ NoMovie /\ NoCatalog /\ NoAuth /\ NoHistory
  /\ xtreamApi = InitializeXtreamApi(Account1)
  /\ \E src \in StreamSources(InitializeXtreamApi(Account1)) :
       /\ streamType = src.streamType
       /\ streamId = src.streamId
       /\ source = src.uri
  /\ mounted = TRUE
  /\ isBuffering = FirstRender.isBuffering
  /\ isInRetryFlow = FirstRender.isInRetryFlow
  /\ currentFormat = FirstRender.currentFormat
  /\ playbackAttempt = FirstRender.playbackAttempt
  /\ loadTimeoutRef = "pending"
  /\ flows = << >>
  /\ media = "loaded"
  /\ loads = << >>
  /\ onErrorCalls = 0
  /\ events = 0

\* retryWithDifferentFormat called from a render that saw scope; by: error,
\* timeout, button.  It runs up to the call of unloadAsync.
retryWithDifferentFormat(scope, by) ==
  IF scope.isInRetryFlow
    THEN UNCHANGED << isInRetryFlow, isBuffering, flows >>
    ELSE /\ isInRetryFlow' = TRUE
         /\ isBuffering' = TRUE
         /\ LET nextFormat == nextFormatOf(scope.currentFormat)
                newUrl == newUrlOf(xtreamApi, streamType, streamId, source, nextFormat)
            IN flows' = IF mounted
                          THEN Append(flows, [pc |-> "unloading", by |-> by,
                                              nextFormat |-> nextFormat,
                                              newUrl |-> newUrl])
                          ELSE flows

\* the Video element reports an error: handleError
PlaybackError ==
  /\ mounted
  /\ events < MaxEvents
  /\ events' = events + 1
  /\ IF playbackAttempt < 2
       THEN retryWithDifferentFormat(LatestRender, "error")
            /\ UNCHANGED onErrorCalls
       ELSE /\ onErrorCalls' = onErrorCalls + 1
            /\ UNCHANGED << isInRetryFlow, isBuffering, flows >>
  /\ UNCHANGED << outsidePlayer, mounted, streamType, streamId, source,
                  currentFormat, playbackAttempt, loadTimeoutRef, media, loads >>

\* the 15 s timer fires
LoadTimeout ==
  /\ loadTimeoutRef = "pending"
  /\ loadTimeoutRef' = "fired"
  /\ LET scope == TimeoutScope(FirstRender, LatestRender)
     IN IF scope.isBuffering /\ scope.playbackAttempt = 0
          THEN retryWithDifferentFormat(scope, "timeout")
          ELSE UNCHANGED << isInRetryFlow, isBuffering, flows >>
  /\ UNCHANGED << outsidePlayer, mounted, streamType, streamId, source,
                  currentFormat, playbackAttempt, media, loads, onErrorCalls,
                  events >>

\* the format button is pressed; it is disabled while isInRetryFlow
FormatButton ==
  /\ mounted
  /\ ~isInRetryFlow
  /\ events < MaxEvents
  /\ events' = events + 1
  /\ retryWithDifferentFormat(LatestRender, "button")
  /\ UNCHANGED << outsidePlayer, mounted, streamType, streamId, source,
                  currentFormat, playbackAttempt, loadTimeoutRef, media, loads,
                  onErrorCalls >>

\* unloadAsync of flow i resolves: with a stream id the format and the URL
\* are switched and the 1 s timer is started, without one the flow ends in
\* onError.  State updates of an unmounted component are dropped.
UnloadResolves(i) ==
  /\ i \in DOMAIN flows
  /\ flows[i].pc = "unloading"
  /\ media' = IF mounted THEN "unloaded" ELSE media
  /\ IF HasStreamId(streamId)
       THEN /\ currentFormat' = IF mounted THEN flows[i].nextFormat ELSE currentFormat
            /\ source' = flows[i].newUrl
            /\ flows' = [flows EXCEPT ![i].pc = "timer"]
            /\ UNCHANGED << isInRetryFlow, onErrorCalls >>
       ELSE /\ isInRetryFlow' = IF mounted THEN FALSE ELSE isInRetryFlow
            /\ onErrorCalls' = onErrorCalls + 1
            /\ flows' = [flows EXCEPT ![i].pc = "done"]
            /\ UNCHANGED << currentFormat, source >>
  /\ UNCHANGED << outsidePlayer, mounted, streamType, streamId,
                  isBuffering, playbackAttempt, loadTimeoutRef, loads, events >>

\* unloadAsync of flow i rejects: the promise has no rejection handler
UnloadRejects(i) ==
  /\ i \in DOMAIN flows
  /\ flows[i].pc = "unloading"
  /\ flows' = [flows EXCEPT ![i].pc = "rejected"]
  /\ UNCHANGED << outsidePlayer, mounted, streamType, streamId, source,
                  isBuffering, isInRetryFlow, currentFormat, playbackAttempt,
                  loadTimeoutRef, media, loads, onErrorCalls, events >>

\* the 1 s timer of flow i fires: loadAsync(getStreamWithHeaders()) if the
\* Video element is still there
ReloadTimer(i) ==
  /\ i \in DOMAIN flows
  /\ flows[i].pc = "timer"
  /\ flows' = [flows EXCEPT ![i].pc = "done"]
  /\ IF mounted
       THEN /\ loads' = Append(loads, [format |-> flows[i].nextFormat,
                                       uri |-> source, by |-> flows[i].by])
            /\ media' = "loaded"
            /\ playbackAttempt' = playbackAttempt + 1
            /\ isInRetryFlow' = FALSE
       ELSE UNCHANGED << loads, media, playbackAttempt, isInRetryFlow >>
  /\ UNCHANGED << outsidePlayer, mounted, streamType, streamId, source,
                  isBuffering, currentFormat, loadTimeoutRef, onErrorCalls,
                  events >>

\* onPlaybackStatusUpdate with a status that has isLoaded
StatusLoaded(buffering) ==
  /\ mounted
  /\ media = "loaded"
  /\ isBuffering' = buffering
  /\ loadTimeoutRef' = "null"
  /\ UNCHANGED << outsidePlayer, mounted, streamType, streamId, source,
                  isInRetryFlow, currentFormat, playbackAttempt, flows, media,
                  loads, onErrorCalls, events >>

\* handleClose: onClose() makes the screen remove the player; the cleanups
\* of the effects run and the Video element is destroyed
Close ==
  /\ mounted
  /\ mounted' = FALSE
  /\ loadTimeoutRef' = IF loadTimeoutRef = "pending" THEN "cleared" ELSE loadTimeoutRef
  /\ media' = "released"
  /\ UNCHANGED << outsidePlayer, streamType, streamId, source,
                  isBuffering, isInRetryFlow, currentFormat, playbackAttempt,
                  flows, loads, onErrorCalls, events >>

\* the flows of one session
Flows == 1 .. (MaxEvents + 1)

NextPlayer ==
  \/ PlaybackError
  \/ LoadTimeout
  \/ FormatButton
  \/ \E i \in Flows : UnloadResolves(i)
  \/ \E i \in Flows : UnloadRejects(i)
  \/ \E i \in Flows : ReloadTimer(i)
  \/ \E b \in BOOLEAN : StatusLoaded(b)
  \/ Close

SpecPlayer == InitPlayer /\ [][NextPlayer]_vars

(***************************************************************************)
(* Properties of the VideoPlayer                                           *)
(***************************************************************************)
\* the retries started by a playback error or the load timeout that loaded
\* a source
AutoRetries(l) == { i \in DOMAIN l : l[i].by \in {"error", "timeout"} }
\* a format switch is outstanding: retryWithDifferentFormat was called and
\* the reload has not been issued
Outstanding == \E i \in DOMAIN flows : flows[i].pc \in {"unloading", "timer"}
\* a step that is a retry trigger
Trigger == PlaybackError \/ LoadTimeout \/ FormatButton

\* C11: in one session the player performs at most 2 automatic format-switch
\* retries, whatever playback errors and load timeouts occur; a playback
\* error after the two retries is passed to onError and starts no retry
C11_RetryBound ==
  [][ /\ Cardinality(AutoRetries(loads')) <= 2
      /\ (PlaybackError /\ Cardinality(AutoRetries(loads)) >= 2)
           => (onErrorCalls' = onErrorCalls + 1 /\ flows' = flows) ]_vars

\* C12: with a stream id, consecutive completed retries load the formats in
\* the cyclic order m3u8 -> mp4 -> ts -> m3u8, starting after the initial
\* m3u8, so that three retries in a row load three different formats
C12_CyclicOrder ==
  HasStreamId(streamId) =>
    \A i \in DOMAIN loads :
      loads[i].format = nextFormatOf(IF i = 1 THEN FirstRender.currentFormat
                                              ELSE loads[i - 1].format)

\* C13: closing the player from any state cancels the load timeout and
\* releases the media resource; after the close no timer of the session is
\* pending and no load of a media source is issued
C13_CleanupOnClose ==
  [][ ~mounted' =>
        /\ loadTimeoutRef' # "pending"
        /\ \A i \in DOMAIN flows' : flows'[i].pc # "timer"
        /\ media' = "released"
        /\ ~mounted => loads' = loads ]_vars

\* C14: while a format switch is outstanding a further trigger (playback
\* error, load timeout, format button) changes neither the format, the URL
\* nor the attempt counter and starts no unload and no load
C14_ReentrancyGuard ==
  [][ (Outstanding /\ Trigger) =>
        UNCHANGED << currentFormat, source, playbackAttempt, flows, loads, media >> ]_vars

\* C15: the load timeout starts a retry only if, when it fires, the player
\* is still buffering and no attempt has been made; a loaded status clears
\* the timer, which then never starts a retry
C15_TimeoutOnlyOnFirstLoad ==
  [][ /\ (LoadTimeout /\ flows' # flows) => (isBuffering /\ playbackAttempt = 0)
      /\ (\E b \in BOOLEAN : StatusLoaded(b)) => loadTimeoutRef' = "null"
      /\ loadTimeoutRef = "null" => loadTimeoutRef' = "null" ]_vars

\* the source the player was opened with when the episode id is not a number
NoIdSource == getSeriesStreamingUrl(xtreamApi, NaN, "m3u8")

EmptyList == [tag |-> "list", items |-> << >>]

\* what getVodStreams and getVodInfo return when nothing could be fetched
fallbackOf == [vod_streams_all |-> EmptyList, vod_info_7 |-> Null]

\* a catalog operation around its fetchWithCache call:
\* try { ...; return data || fallback } catch (error) { return fallback }
CatalogRethrow(result, fallback) == result
CatalogReturn(result, fallback) ==
  IF result.kind = "value"
    THEN [kind |-> "value",
          data |-> IF result.data \in {Null, NoData} THEN fallback ELSE result.data]
    ELSE [kind |-> "value", data |-> fallback]

\* what the catalog operation of call c resolves or rejects with
Returned(c) == CatalogReturn(calls[c].result, fallbackOf[calls[c].key])

\* key.startsWith(prefix), key.includes(part)
StartsWith(s, prefix) ==
  Len(s) >= Len(prefix) /\ SubSeq(s, 1, Len(prefix)) = prefix
Includes(s, part) ==
  \E i \in 1 .. (Len(s) - Len(part) + 1) : SubSeq(s, i, i + Len(part) - 1) = part

\* AsyncStorage.getAllKeys and AsyncStorage.multiRemove
getAllKeys(st) == { k \in DOMAIN st : st[k] # NoEntry }
multiRemove(st, ks) == [k \in DOMAIN st |-> IF k \in ks THEN NoEntry ELSE st[k]]

ClearTypes == {"all", "live", "vod", "series"}

\* clearCache: keysToRemove
keysToRemoveOf(type, keys, cachePrefix) ==
  { key \in keys :
      /\ StartsWith(key, cachePrefix)
      /\ CASE type = "all" -> TRUE
           [] type = "live" ->
                Includes(key, "live_categories") \/ Includes(key, "live_streams")
           [] type = "vod" ->
                \/ Includes(key, "vod_categories") \/ Includes(key, "vod_streams")
                \/ Includes(key, "vod_info")
           [] type = "series" ->
                \/ Includes(key, "series_categories") \/ Includes(key, "series_cat_")
                \/ Includes(key, "series_info") \/ Includes(key, "series_all")
           [] OTHER -> FALSE }

\* the clearCache call in storageQueue
ClearCacheId == 0

\* clearCache runs up to the await of getAllKeys.  keysOk: its outcome.
ClearCacheStart(type, keysOk) ==
  /\ clearCacheCall.pc = "idle"
  /\ clearCacheCall' =
       [clearCacheCall EXCEPT !.pc = "keys", !.type = type,
                              !.keys = IF keysOk THEN getAllKeys(storage) ELSE {},
                              !.failed = ~keysOk]
  /\ storageQueue' = Append(storageQueue, ClearCacheId)
  /\ UNCHANGED << username, password, baseUrl, isAuthenticated, abortControllers,
                  aborted, storage, now, calls, appVars >>

\* getAllKeys is back: a failure goes to the catch block, otherwise the keys
\* are filtered and multiRemove is issued if there are any.  removeOk: the
\* outcome of multiRemove.
ClearCacheKeys(removeOk) ==
  /\ clearCacheCall.pc = "keys"
  /\ storageQueue # << >> /\ Head(storageQueue) = ClearCacheId
  /\ LET keysToRemove ==
           keysToRemoveOf(clearCacheCall.type, clearCacheCall.keys,
                          getCacheKey(username, baseUrl, ""))
     IN IF clearCacheCall.failed \/ keysToRemove = {}
          THEN /\ clearCacheCall' =
                    [clearCacheCall EXCEPT !.pc = "done", !.outcome = "resolved"]
               /\ storageQueue' = Tail(storageQueue)
               /\ UNCHANGED storage
          ELSE /\ clearCacheCall' =
                    [clearCacheCall EXCEPT !.pc = "removing", !.failed = ~removeOk]
               /\ storage' = IF removeOk THEN multiRemove(storage, keysToRemove)
                                         ELSE storage
               /\ storageQueue' = Append(Tail(storageQueue), ClearCacheId)
  /\ UNCHANGED << username, password, baseUrl, isAuthenticated, abortControllers,
                  aborted, now, calls, appVars >>

\* multiRemove is back; a failure goes to the catch block
ClearCacheDone ==
  /\ clearCacheCall.pc = "removing"
  /\ storageQueue # << >> /\ Head(storageQueue) = ClearCacheId
  /\ storageQueue' = Tail(storageQueue)
  /\ clearCacheCall' = [clearCacheCall EXCEPT !.pc = "done", !.outcome = "resolved"]
  /\ UNCHANGED << username, password, baseUrl, isAuthenticated, abortControllers,
                  aborted, storage, now, calls, appVars >>

(***************************************************************************)
(* SpecCatalog: one account; catalog operations and a clearCache call run   *)
(* side by side, storage and network may fail.                             *)
(***************************************************************************)
NextCatalog ==
  \/ /\ ~isAuthenticated
     /\ Initialize(Account1.username, Account1.password, Account1.server_url)
  \/ \E c \in Calls, r \in Requests, readOk \in BOOLEAN :
        c <= MaxCatalogCalls /\ isAuthenticated /\ Start(c, r, readOk)
  \/ \E c \in Calls : ReadDone(c)
  \/ \E c \in Calls, writeOk \in BOOLEAN : FetchOk(c, writeOk)
  \/ \E c \in Calls : SaveDone(c)
  \/ \E c \in Calls : FetchFail(c)
  \/ \E type \in ClearTypes, keysOk \in BOOLEAN :
        isAuthenticated /\ ClearCacheStart(type, keysOk)
  \/ \E removeOk \in BOOLEAN : ClearCacheKeys(removeOk)
  \/ ClearCacheDone

SpecCatalog == Init /\ [][NextCatalog]_vars

USER_STORAGE_KEY == "@iptv_player_auth"

\* the keys useInitialData passes to useCachedData that are modelled
HookKeys == {"vod_streams"}

\* the accounts a user logs in with
AuthAccounts == {Account1, Account2}

\* useCachedData: getCacheKey
hookCacheKey(api, key) ==
  IF ~api.isAuthenticated THEN key
  ELSE "cache:" \o api.username \o "@" \o api.baseUrl \o ":" \o key

HISTORY_STORAGE_KEY == "@iptv_player_history"
FAVORITES_STORAGE_KEY == "@iptv_player_favorites"

\* HistoryService.getUserKey and FavoritesService.getUserKey
getUserKey(api, storageKey) ==
  IF ~api.isAuthenticated THEN storageKey
  ELSE storageKey \o ":" \o api.username \o "@" \o api.baseUrl

\* the keys under which the favorites and the watch history of a user are
UserDataKeys(a) ==
  { getUserKey(InitializeXtreamApi(a), HISTORY_STORAGE_KEY),
    getUserKey(InitializeXtreamApi(a), FAVORITES_STORAGE_KEY) }

\* the keys of AsyncStorage in SpecAuth
AuthStorageKeys ==
  {USER_STORAGE_KEY} \cup HookKeys
    \cup { hookCacheKey(InitializeXtreamApi(a), k) : a \in AuthAccounts, k \in HookKeys }
    \cup UNION { UserDataKeys(a) : a \in AuthAccounts }

\* a list of favorites or a watch history that was stored
StoredList == [tag |-> "entry", data |-> [tag |-> "json"]]

\* XtreamAPI.reset
ResetXtreamApi ==
  [username |-> "", password |-> "", baseUrl |-> "", isAuthenticated |-> FALSE]

\* const userData = {...credentials, status: 'authenticated'}
User(a) ==
  [username |-> a.username, password |-> a.password, server_url |-> a.server_url,
   status |-> "authenticated"]

\* clearContentCaches: commonKeys and contentKeys
commonKeys ==
  {"@iptv_player_favorites", "@iptv_player_history", "@live_categories",
   "@live_streams", "@vod_categories", "@vod_streams", "@series_categories",
   "@series"}
contentKeysOf(keys) ==
  { key \in keys :
      \/ \E pattern \in commonKeys : Includes(key, pattern)
      \/ Includes(key, "cache:")
      \/ Includes(key, "content:") }

\* the login or logout call in storageQueue
AuthCallId == 0

\* a user is logged in with Account1 (loadUserFromStorage or an earlier login
\* has run), no hook has loaded anything yet; the two accounts have stored
\* favorites and a watch history in earlier sessions, or they have not
InitAuth ==
  /\ username = "" /\ password = "" /\ baseUrl = "" /\ isAuthenticated = FALSE
  /\ abortControllers = [k \in LogicalKeys |-> NoController]
  /\ aborted = {}
  /\ now = 0
  /\ calls = [c \in Calls |-> IdleCall]
  /\ \E lists \in {NoEntry, StoredList} :
       storage = [k \in AuthStorageKeys |->
                    IF k = USER_STORAGE_KEY
                      THEN [tag |-> "entry", data |-> User(Account1)]
                    ELSE IF \E a \in AuthAccounts : k \in UserDataKeys(a)
                      THEN lists
                    ELSE NoEntry]
  /\ storageQueue = << >>
  /\ xtreamApi = InitializeXtreamApi(Account1)
  /\ NoMovie /\ NoPlayer /\ NoCatalog /\ NoHistory
  /\ authUser = User(Account1)
  /\ authCall = IdleAuth
  /\ hookLoads = << >>
  /\ hookData = [k \in HookKeys |-> Null]
  /\ refreshAt = NotRefreshed

\* the variables the actions of this part leave alone
outsideAuth ==
  << username, password, baseUrl, isAuthenticated, abortControllers, aborted,
     now, calls, movieDetails, streamingUrl, playerVars, catalogVars,
     historyVars, refreshAt >>

\* the cleanup of the effect of every loadData call: isMounted = false
Unmounted(hl) == [i \in DOMAIN hl |-> [hl[i] EXCEPT !.isMounted = FALSE]]
\* the cleanup of the effect of the hook of one key
UnmountedOfNever(hl, key) == hl
UnmountedOf(hl, key) ==
  [i \in DOMAIN hl |-> IF hl[i].key = key THEN [hl[i] EXCEPT !.isMounted = FALSE]
                                          ELSE hl[i]]

\* the effect of useCachedData runs (mount, or refreshKey changed and the
\* cleanup of the previous run has been called): loadData runs up to the
\* await of AsyncStorage.getItem
LoadStart(key) ==
  /\ Len(hookLoads) < MaxLoads
  /\ LET cacheKey == hookCacheKey(xtreamApi, key)
     IN hookLoads' =
          Append(UnmountedOf(hookLoads, key),
                 [IdleLoad EXCEPT !.pc = "reading", !.key = key,
                                  !.cacheKey = cacheKey, !.got = storage[cacheKey],
                                  !.isMounted = TRUE,
                                  !.before = (authCall.pc = "idle"),
                                  !.api = xtreamApi])
  /\ storageQueue' = Append(storageQueue, Len(hookLoads) + 1)
  /\ UNCHANGED << outsideAuth, storage, xtreamApi, authUser, authCall, hookData >>

\* isExpired: Date.now() - timestamp > expireTime
isExpired(entry, t, expireTime) == t - entry.timestamp > expireTime

\* getItem is back: data from the cache if there is an entry that has not
\* expired and the effect is still mounted, otherwise fetchFunction() is called
LoadRead(i) ==
  /\ i \in DOMAIN hookLoads
  /\ hookLoads[i].pc = "reading"
  /\ storageQueue # << >> /\ Head(storageQueue) = i
  /\ storageQueue' = Tail(storageQueue)
  /\ LET got == hookLoads[i].got
     IN IF /\ got # NoEntry
           /\ ~isExpired(got, now, CACHE_DURATIONS.STREAMS)
           /\ hookLoads[i].isMounted
          THEN /\ hookLoads' = [hookLoads EXCEPT ![i].pc = "done",
                                                 ![i].data = got.data]
               /\ hookData' = [hookData EXCEPT ![hookLoads[i].key] = got.data]
          ELSE /\ hookLoads' = [hookLoads EXCEPT ![i].pc = "fetching"]
               /\ UNCHANGED hookData
  /\ UNCHANGED << outsideAuth, storage, xtreamApi, authUser, authCall >>

\* fetchFunction() resolves (xtreamApi.getVodStreams gives [] on a failure);
\* if the effect is still mounted the data is set and setItem is issued
LoadFetched(i, ok) ==
  /\ i \in DOMAIN hookLoads
  /\ hookLoads[i].pc = "fetching"
  /\ LET freshData == IF ok THEN [tag |-> "json", load |-> i] ELSE EmptyList
     IN IF hookLoads[i].isMounted
          THEN /\ hookLoads' = [hookLoads EXCEPT ![i].pc = "saving",
                                                 ![i].data = freshData,
                                                 ![i].wrote = TRUE]
               /\ hookData' = [hookData EXCEPT ![hookLoads[i].key] = freshData]
               /\ storage' = [storage EXCEPT ![hookLoads[i].cacheKey] =
                                [tag |-> "entry", data |-> freshData,
                                 timestamp |-> now]]
               /\ storageQueue' = Append(storageQueue, i)
          ELSE /\ hookLoads' = [hookLoads EXCEPT ![i].pc = "done"]
               /\ UNCHANGED << storage, storageQueue, hookData >>
  /\ UNCHANGED << outsideAuth, xtreamApi, authUser, authCall >>

\* setItem is back
LoadSaved(i) ==
  /\ i \in DOMAIN hookLoads
  /\ hookLoads[i].pc = "saving"
  /\ storageQueue # << >> /\ Head(storageQueue) = i
  /\ storageQueue' = Tail(storageQueue)
  /\ hookLoads' = [hookLoads EXCEPT ![i].pc = "done"]
  /\ UNCHANGED << outsideAuth, storage, xtreamApi, authUser, authCall, hookData >>

\* logout runs up to the await of removeItem(USER_STORAGE_KEY)
LogoutStart ==
  /\ authCall.pc = "idle"
  /\ authUser # Null
  /\ authCall' = [authCall EXCEPT !.pc = "removed", !.op = "logout",
                                  !.previous = authUser]
  /\ storage' = [storage EXCEPT ![USER_STORAGE_KEY] = NoEntry]
  /\ storageQueue' = Append(storageQueue, AuthCallId)
  /\ UNCHANGED << outsideAuth, xtreamApi, authUser, hookLoads, hookData >>

\* removeItem is back: clearContentCaches runs up to the await of getAllKeys
LogoutRemoved ==
  /\ authCall.pc = "removed"
  /\ storageQueue # << >> /\ Head(storageQueue) = AuthCallId
  /\ authCall' = [authCall EXCEPT !.pc = "keys", !.keys = getAllKeys(storage)]
  /\ storageQueue' = Append(Tail(storageQueue), AuthCallId)
  /\ UNCHANGED << outsideAuth, storage, xtreamApi, authUser, hookLoads, hookData >>

\* what follows await clearContentCaches(): logout sets the user to null,
\* resets the api and notifies the listeners, whose hooks run their effects
\* again after the cleanup of the previous run; login initializes the api
\* and calls authenticate()
AfterClear ==
  IF authCall.op = "logout"
    THEN /\ authUser' = Null
         /\ xtreamApi' = ResetXtreamApi
         /\ hookLoads' = Unmounted(hookLoads)
         /\ authCall' = [authCall EXCEPT !.pc = "done", !.cleared = TRUE,
                                         !.outcome = "resolved"]
    ELSE /\ xtreamApi' = InitializeXtreamApi(authCall.credentials)
         /\ authCall' = [authCall EXCEPT !.pc = "authenticating", !.cleared = TRUE]
         /\ UNCHANGED << authUser, hookLoads >>

\* login runs up to its first await: getAllKeys in clearContentCaches if a
\* user is logged in, authenticate() otherwise
LoginStart(a) ==
  /\ authCall.pc = "idle"
  /\ IF authUser # Null
       THEN /\ authCall' = [authCall EXCEPT !.pc = "keys", !.op = "login",
                                            !.credentials = a,
                                            !.previous = authUser,
                                            !.keys = getAllKeys(storage)]
            /\ storageQueue' = Append(storageQueue, AuthCallId)
            /\ UNCHANGED xtreamApi
       ELSE /\ authCall' = [authCall EXCEPT !.pc = "authenticating", !.op = "login",
                                            !.credentials = a]
            /\ xtreamApi' = InitializeXtreamApi(a)
            /\ UNCHANGED storageQueue
  /\ UNCHANGED << outsideAuth, storage, authUser, hookLoads, hookData >>

\* getAllKeys is back: the content keys are removed with multiRemove if
\* there are any
AuthClearKeys ==
  /\ authCall.pc = "keys"
  /\ storageQueue # << >> /\ Head(storageQueue) = AuthCallId
  /\ LET contentKeys == contentKeysOf(authCall.keys)
     IN IF contentKeys # {}
          THEN /\ storage' = multiRemove(storage, contentKeys)
               /\ authCall' = [authCall EXCEPT !.pc = "clearing"]
               /\ storageQueue' = Append(Tail(storageQueue), AuthCallId)
               /\ UNCHANGED << xtreamApi, authUser, hookLoads >>
          ELSE /\ AfterClear
               /\ storageQueue' = Tail(storageQueue)
               /\ UNCHANGED storage
  /\ UNCHANGED << outsideAuth, hookData >>

\* multiRemove is back
AuthCleared ==
  /\ authCall.pc = "clearing"
  /\ storageQueue # << >> /\ Head(storageQueue) = AuthCallId
  /\ storageQueue' = Tail(storageQueue)
  /\ AfterClear
  /\ UNCHANGED << outsideAuth, storage, hookData >>

\* authenticate() resolves: with true the user is set and stored, with
\* false the api is reset and login returns false
LoginAuthenticated(ok) ==
  /\ authCall.pc = "authenticating"
  /\ IF ok
       THEN /\ authUser' = User(authCall.credentials)
            /\ storage' = [storage EXCEPT ![USER_STORAGE_KEY] =
                             [tag |-> "entry", data |-> User(authCall.credentials)]]
            /\ authCall' = [authCall EXCEPT !.pc = "storing"]
            /\ storageQueue' = Append(storageQueue, AuthCallId)
            /\ UNCHANGED xtreamApi
       ELSE /\ xtreamApi' = ResetXtreamApi
            /\ authCall' = [authCall EXCEPT !.pc = "done", !.outcome = "false"]
            /\ UNCHANGED << authUser, storage, storageQueue >>
  /\ UNCHANGED << outsideAuth, hookLoads, hookData >>

\* setItem(USER_STORAGE_KEY) is back: login returns true
LoginStored ==
  /\ authCall.pc = "storing"
  /\ storageQueue # << >> /\ Head(storageQueue) = AuthCallId
  /\ storageQueue' = Tail(storageQueue)
  /\ authCall' = [authCall EXCEPT !.pc = "done", !.outcome = "true"]
  /\ UNCHANGED << outsideAuth, storage, xtreamApi, authUser, hookLoads, hookData >>

(***************************************************************************)
(* SpecAuth: a logged-in user; hooks load catalog data while one logout or  *)
(* login runs.  Storage does not fail and no entry expires.                *)
(***************************************************************************)
Loads == 1 .. MaxLoads

NextAuth ==
  \/ \E key \in HookKeys : LoadStart(key)
  \/ \E i \in Loads : LoadRead(i)
  \/ \E i \in Loads, ok \in BOOLEAN : LoadFetched(i, ok)
  \/ \E i \in Loads : LoadSaved(i)
  \/ LogoutStart
  \/ LogoutRemoved
  \/ \E a \in AuthAccounts : LoginStart(a)
  \/ AuthClearKeys
  \/ AuthCleared
  \/ \E ok \in BOOLEAN : LoginAuthenticated(ok)
  \/ LoginStored

SpecAuth == InitAuth /\ [][NextAuth]_vars

\* the cache keys of the identity of user u
CacheKeysOf(u) ==
  { hookCacheKey(InitializeXtreamApi(u), k) : k \in HookKeys }

\* the call that is over was a logout, or a login that replaced the user by
\* another identity
TornDown ==
  /\ authCall.pc = "done" /\ authCall.cleared
  /\ \/ authCall.op = "logout"
     \/ /\ authCall.op = "login" /\ authCall.outcome = "true"
        /\ << authCall.credentials.username, authCall.credentials.server_url >>
             # << authCall.previous.username, authCall.previous.server_url >>

\* every load began before the login or logout call was made
LoadsBeganBefore == \A i \in DOMAIN hookLoads : hookLoads[i].before

\* C20: once logout, or a login that switches accounts, has completed, no
\* cache entry of the previous identity is left in storage, also when loads
\* of useCachedData that began before it finish after it
C20_NamespaceTeardown ==
  (TornDown /\ LoadsBeganBefore)
    => \A k \in CacheKeysOf(authCall.previous) : storage[k] = NoEntry

(***************************************************************************)
(* The registry of in-flight requests over the life of a call              *)
(***************************************************************************)
\* the calls of a key that registered a controller, have not reached their
\* finally block and were not aborted by a later call or by reset
Outstanding21(k) ==
  { c \in Calls : /\ calls[c].pc \in {"fetching", "saving"}
                  /\ calls[c].key = k
                  /\ c \notin aborted }

\* C21: the registry holds an entry for a key exactly while a fetch of that key
\* that was not superseded is outstanding, and that entry is the fetch's own:
\* the completion of a superseded call leaves the entry of its successor alone
C21_RegistryLifecycle ==
  \A k \in LogicalKeys :
    /\ (abortControllers[k] # NoController) <=> (Outstanding21(k) # {})
    /\ abortControllers[k] # NoController => abortControllers[k] \in Outstanding21(k)

(***************************************************************************)
(* The URL of a live stream over its retries                               *)
(***************************************************************************)
\* flow i is the only format switch that is outstanding, and every switch of
\* the session so far was started by a playback error or the format button
OnlyFlow(i) ==
  /\ { j \in DOMAIN flows : flows[j].pc \in {"unloading", "timer"} } = {i}
  /\ \A j \in DOMAIN flows : flows[j].by # "timeout"

\* C22: the URL of a live stream never ends in .mp4, and each completed retry
\* (the unload of a switch resolves and the new URL is put in place) changes
\* the extension of the URL
C22_LiveExtensions ==
  [][ streamType = "live" =>
        /\ ~EndsWith(source', ".mp4")
        /\ \A i \in Flows :
             (OnlyFlow(i) /\ UnloadResolves(i)) => source' # source ]_vars

(***************************************************************************)
(* Part 6: HistoryService (services/history): addToHistory and             *)
(* removeFromHistory over the history list of the current user.            *)
(* AsyncStorage holds JSON text: what is read back is                      *)
(* JSON.parse(JSON.stringify(list)), in which a number that is NaN has     *)
(* become null and a property that is undefined is absent.                 *)
(***************************************************************************)
MAX_HISTORY_ITEMS == 100

\* a === b for numbers, null and undefined
StrictEquals(a, b) == a = b /\ a # Num(NaN)

\* JSON.parse(JSON.stringify(v)) of a number, or of a property that is absent
JsonValue(v) == IF v = Num(NaN) THEN Null ELSE v
JsonItem(h) ==
  [h EXCEPT !.id = JsonValue(@), !.season = JsonValue(@),
            !.episode_num = JsonValue(@)]
\* JSON.parse(JSON.stringify(history))
JsonHistory(history) == [i \in DOMAIN history |-> JsonItem(history[i])]

\* a WatchHistoryItem; name, icons and position play no part
Item(id, type, season, episode_num) ==
  [id |-> id, type |-> type, season |-> season, episode_num |-> episode_num,
   timestamp |-> 0]

\* addToHistory: the test of its filter, negated
SameItem(h, item) ==
  /\ StrictEquals(h.id, item.id)
  /\ h.type = item.type
  /\ \/ item.type # "series"
     \/ /\ StrictEquals(h.season, item.season)
        /\ StrictEquals(h.episode_num, item.episode_num)

\* addToHistory: filter, then unshift({...item, timestamp: Date.now()})
AddItem(history, item, t) ==
  << [item EXCEPT !.timestamp = t] >>
    \o SelectSeq(history, LAMBDA h : ~SameItem(h, item))

\* removeFromHistory: filter
RemoveItem(history, a) ==
  SelectSeq(history, LAMBDA h :
    IF ~StrictEquals(h.id, a.id) \/ h.type # a.type THEN TRUE
    ELSE IF a.type = "series" /\ a.season # Undefined /\ a.episode_num # Undefined
      THEN ~(StrictEquals(h.season, a.season)
               /\ StrictEquals(h.episode_num, a.episode_num))
    ELSE FALSE)

\* history.slice(0, n)
slice(history, n) ==
  SubSeq(history, 1, IF Len(history) < n THEN Len(history) ELSE n)

\* a history that has reached MAX_HISTORY_ITEMS: movies, each watched once
FullHistory ==
  [i \in 1 .. MAX_HISTORY_ITEMS |->
     Item(Num(MAX_HISTORY_ITEMS + i), "vod", Undefined, Undefined)]

\* what the players add: a movie, two episodes of a series, an episode of a
\* series whose id parameter is not a number (series/player: parseInt), and
\* the movie at the end of FullHistory
HistoryItems ==
  { Item(Num(1), "vod", Undefined, Undefined),
    Item(Num(1), "series", Num(1), Num(1)),
    Item(Num(1), "series", Num(1), Num(2)),
    Item(Num(NaN), "series", Num(1), Num(1)),
    Item(Num(MAX_HISTORY_ITEMS + MAX_HISTORY_ITEMS), "vod", Undefined, Undefined) }

\* the arguments of removeFromHistory: a movie, an episode, a whole series
HistoryRemovals ==
  { Item(Num(1), "vod", Undefined, Undefined),
    Item(Num(1), "series", Num(1), Num(1)),
    Item(Num(1), "series", Undefined, Undefined) }

HistoryOps ==
  { [op |-> "add", item |-> it] : it \in HistoryItems }
    \cup { [op |-> "remove", item |-> a] : a \in HistoryRemovals }

Entry(d) == [tag |-> "entry", data |-> d]

\* the key of the history of the user who is logged in
HistoryKey == getUserKey(InitializeXtreamApi(Account1), HISTORY_STORAGE_KEY)

\* a user is logged in; the history is absent or full
InitHistory ==
  /\ username = "" /\ password = "" /\ baseUrl = "" /\ isAuthenticated = FALSE
  /\ abortControllers = [k \in LogicalKeys |-> NoController]
  /\ aborted = {}
  /\ now = 0
  /\ calls = [c \in Calls |-> IdleCall]
  /\ \E h \in {NoEntry, Entry(FullHistory)} : storage = [k \in {HistoryKey} |-> h]
  /\ storageQueue = << >>
  /\ xtreamApi = InitializeXtreamApi(Account1)
  /\ NoMovie /\ NoPlayer /\ NoCatalog /\ NoAuth /\ NoHistory

\* the variables the actions of this part leave alone
outsideHistory ==
  << username, password, baseUrl, isAuthenticated, abortControllers, aborted,
     now, calls, apiVars, playerVars, catalogVars, authVars >>

\* addToHistory or removeFromHistory is called and runs up to the await of
\* AsyncStorage.getItem inside getHistory.  readOk: the outcome of getItem.
\* earlier: where the calls made before were at this moment.
HistoryStart(o, readOk) ==
  /\ Len(historyCalls) < MaxHistoryCalls
  /\ LET userKey == getUserKey(xtreamApi, HISTORY_STORAGE_KEY)
     IN historyCalls' = Append(historyCalls,
          [pc |-> "reading", op |-> o.op, item |-> o.item,
           got |-> IF readOk THEN storage[userKey] ELSE IOError,
           wrote |-> FALSE,
           earlier |-> [j \in DOMAIN historyCalls |-> historyCalls[j].pc]])
  /\ storageQueue' = Append(storageQueue, Len(historyCalls) + 1)
  /\ UNCHANGED << storage, outsideHistory >>

\* getItem is back: getHistory returns the parsed list, or [] when nothing is
\* stored or getItem failed; the list is filtered (and the item put in
\* front) and saveHistory runs up to the await of AsyncStorage.setItem.
\* writeOk: the outcome of setItem.
HistoryRead(i, writeOk) ==
  /\ i \in DOMAIN historyCalls
  /\ historyCalls[i].pc = "reading"
  /\ storageQueue # << >> /\ Head(storageQueue) = i
  /\ LET got == historyCalls[i].got
         history == IF got.tag = "entry" THEN got.data ELSE << >>
         changed == IF historyCalls[i].op = "add"
                      THEN AddItem(history, historyCalls[i].item, now)
                      ELSE RemoveItem(history, historyCalls[i].item)
         userKey == getUserKey(xtreamApi, HISTORY_STORAGE_KEY)
         trimmedHistory == slice(changed, MAX_HISTORY_ITEMS)
     IN storage' = IF writeOk
                     THEN [storage EXCEPT ![userKey] = Entry(JsonHistory(trimmedHistory))]
                     ELSE storage
  /\ historyCalls' = [historyCalls EXCEPT ![i].pc = "saving", ![i].wrote = writeOk]
  /\ storageQueue' = Append(Tail(storageQueue), i)
  /\ UNCHANGED outsideHistory

\* setItem is back (a failure was caught inside saveHistory)
HistorySaved(i) ==
  /\ i \in DOMAIN historyCalls
  /\ historyCalls[i].pc = "saving"
  /\ storageQueue # << >> /\ Head(storageQueue) = i
  /\ storageQueue' = Tail(storageQueue)
  /\ historyCalls' = [historyCalls EXCEPT ![i].pc = "done"]
  /\ UNCHANGED << storage, outsideHistory >>

HistoryCallIds == 1 .. MaxHistoryCalls

NextHistory ==
  \/ \E o \in HistoryOps, readOk \in BOOLEAN : HistoryStart(o, readOk)
  \/ \E i \in HistoryCallIds, writeOk \in BOOLEAN : HistoryRead(i, writeOk)
  \/ \E i \in HistoryCallIds : HistorySaved(i)

SpecHistory == InitHistory /\ [][NextHistory]_vars

(***************************************************************************)
(* Properties of the watch history                                         *)
(***************************************************************************)
\* the stored history of the user
StoredHistory ==
  IF storage[HistoryKey].tag = "entry" THEN storage[HistoryKey].data ELSE << >>

\* every call so far began after the calls before it had completed, and all
\* have completed
SequentiallyCompleted ==
  \A i \in DOMAIN historyCalls :
    /\ historyCalls[i].pc = "done"
    /\ \A j \in DOMAIN historyCalls[i].earlier : historyCalls[i].earlier[j] = "done"

\* two stored items have the same identity
SameIdentity(g, h) ==
  /\ g.id = h.id /\ g.type = h.type
  /\ g.type = "series" => (g.season = h.season /\ g.episode_num = h.episode_num)

\* C23: after sequentially completed addToHistory and removeFromHistory calls
\* the stored history has at most 100 items, no two items of the same
\* identity, and, when the last call added an item and its write was stored,
\* that item first
C23_HistoryShape ==
  SequentiallyCompleted =>
    /\ Len(StoredHistory) <= MAX_HISTORY_ITEMS
    /\ \A i, j \in DOMAIN StoredHistory :
         i # j => ~SameIdentity(StoredHistory[i], StoredHistory[j])
    /\ \A c \in DOMAIN historyCalls :
         (c = Len(historyCalls) /\ historyCalls[c].op = "add" /\ historyCalls[c].wrote)
           => StoredHistory[1] = JsonItem(historyCalls[c].item)

(***************************************************************************)
(* Part 7: useInitialData: the useCachedData hooks of the catalog lists    *)
(* and refreshAllData.  The effect of a hook runs when the component       *)
(* mounts and when refreshKey changes; no user changes here, so it runs    *)
(* once per hook.  Every awaited operation completes (weak fairness).      *)
(***************************************************************************)
\* two of the six keys of useInitialData, both with an expiry of 30 minutes
RefreshKeys == {"live_streams", "vod_streams"}

RefreshStorageKeys ==
  { hookCacheKey(InitializeXtreamApi(Account1), k) : k \in RefreshKeys }

\* what an earlier session left in the cache
CachedList == [tag |-> "entry", data |-> [tag |-> "json", load |-> 0], timestamp |-> 0]

\* a user is logged in, the screen has rendered and no effect has run yet;
\* each list is cached or not
InitRefresh ==
  /\ username = "" /\ password = "" /\ baseUrl = "" /\ isAuthenticated = FALSE
  /\ abortControllers = [k \in LogicalKeys |-> NoController]
  /\ aborted = {}
  /\ now = 0
  /\ calls = [c \in Calls |-> IdleCall]
  /\ storage \in [RefreshStorageKeys -> {NoEntry, CachedList}]
  /\ storageQueue = << >>
  /\ xtreamApi = InitializeXtreamApi(Account1)
  /\ NoMovie /\ NoPlayer /\ NoCatalog /\ NoHistory
  /\ authUser = User(Account1)
  /\ authCall = IdleAuth
  /\ hookLoads = << >>
  /\ hookData = [k \in RefreshKeys |-> Null]
  /\ refreshAt = NotRefreshed

\* the effect of the hook of key runs after the first render
MountEffect(key) ==
  /\ \A i \in DOMAIN hookLoads : hookLoads[i].key # key
  /\ LoadStart(key)

\* refetch: () => setData(null)
refetch(data, key) == [data EXCEPT ![key] = Null]

\* refreshAllData calls refetch() of every hook; the dependencies of the
\* effects are [refreshKey], which this does not change
refreshAllData ==
  /\ refreshAt = NotRefreshed
  /\ refreshAt' = Len(hookLoads)
  /\ hookData' = [k \in DOMAIN hookData |-> refetch(hookData, k)[k]]
  /\ UNCHANGED << engineVars, apiVars, playerVars, catalogVars, historyVars,
                  authUser, authCall, hookLoads >>

NextRefresh ==
  \/ \E key \in RefreshKeys : MountEffect(key)
  \/ \E i \in Loads : LoadRead(i)
  \/ \E i \in Loads, ok \in BOOLEAN : LoadFetched(i, ok)
  \/ \E i \in Loads : LoadSaved(i)
  \/ refreshAllData

FairRefresh ==
  /\ WF_vars(\E key \in RefreshKeys : MountEffect(key))
  /\ WF_vars(\E i \in Loads : LoadRead(i))
  /\ WF_vars(\E i \in Loads, ok \in BOOLEAN : LoadFetched(i, ok))
  /\ WF_vars(\E i \in Loads : LoadSaved(i))

SpecRefresh == InitRefresh /\ [][NextRefresh]_vars /\ FairRefresh

\* the hook of key has run a load that began after refreshAllData and is over
LoadedAgain(key) ==
  \E i \in DOMAIN hookLoads :
    i > refreshAt /\ hookLoads[i].key = key /\ hookLoads[i].pc = "done"

\* C24: after refreshAllData every resource eventually runs its load again
\* and ends with data that is not null
C24_ForcedRefresh ==
  (refreshAt # NotRefreshed)
    ~> (\A key \in RefreshKeys : LoadedAgain(key) /\ hookData[key] # Null)

(***************************************************************************)
(* Part 8: clearCache over a storage that holds the caches of several      *)
(* identities                                                              *)
(***************************************************************************)
\* the same user on a server, on that server with a port, and on another one
AccountPort == [username |-> "u", password |-> "p", server_url |-> "http://g:8080"]
AccountOther == [username |-> "u", password |-> "p", server_url |-> "http://k"]
ClearAccounts == {Account1, AccountPort, AccountOther}

\* one logical key of each content type (getLiveStreams, getVodStreams,
\* getSeries without category)
TypeOfKey ==
  [live_streams_all |-> "live", vod_streams_all |-> "vod", series_all |-> "series"]

ClearStorageKeys ==
  { getCacheKey(a.username, a.server_url, k) : a \in ClearAccounts, k \in DOMAIN TypeOfKey }

\* an entry saveToCache stored
StoredEntry == CacheData([tag |-> "json"], 0, CACHE_DURATIONS.STREAMS)

\* Account1 or AccountPort is logged in; any of the keys may hold an entry
InitClear ==
  /\ \E a \in {Account1, AccountPort} :
       /\ username = a.username /\ password = a.password /\ baseUrl = a.server_url
  /\ isAuthenticated = TRUE
  /\ abortControllers = [k \in LogicalKeys |-> NoController]
  /\ aborted = {}
  /\ storage \in [ClearStorageKeys -> {NoEntry, StoredEntry}]
  /\ storageQueue = << >>
  /\ now = 0
  /\ calls = [c \in Calls |-> IdleCall]
  /\ InitXtreamApi /\ NoMovie /\ NoPlayer /\ NoCatalog /\ NoAuth /\ NoHistory

NextClear ==
  \/ \E type \in ClearTypes, keysOk \in BOOLEAN : ClearCacheStart(type, keysOk)
  \/ \E removeOk \in BOOLEAN : ClearCacheKeys(removeOk)
  \/ ClearCacheDone

SpecClear == InitClear /\ [][NextClear]_vars

\* the keys of the current identity, and of these the keys of a content type
OwnKeys == { getCacheKey(username, baseUrl, k) : k \in DOMAIN TypeOfKey }
OwnKeysOf(type) ==
  { getCacheKey(username, baseUrl, k) :
      k \in { x \in DOMAIN TypeOfKey : type = "all" \/ TypeOfKey[x] = type } }

\* C25: clearCache(type) changes only entries of the current identity, and for
\* live, vod or series only entries of that content type; the entries of every
\* other identity, also one whose server origin extends the current one, stay
C25_ClearScoped ==
  [][ \A k \in ClearStorageKeys :
        storage'[k] # storage[k] => k \in OwnKeysOf(clearCacheCall.type) ]_vars

(***************************************************************************)
(* Properties of login and logout                                          *)
(***************************************************************************)
\* the api client is initialized with the credentials of user u
InitializedFor(u) ==
  /\ xtreamApi.isAuthenticated
  /\ xtreamApi.username = u.username
  /\ xtreamApi.password = u.password
  /\ xtreamApi.baseUrl = u.server_url

\* a login attempted while a user was authenticated has returned false
FailedLogin ==
  /\ authCall.pc = "done" /\ authCall.op = "login" /\ authCall.outcome = "false"
  /\ authCall.previous # Null

\* after a failed login the user, the credentials of the api client and the
\* content caches that were stored when login was called are what they were
SessionKept ==
  FailedLogin =>
    /\ authUser = authCall.previous
    /\ InitializedFor(authCall.previous)
    /\ \A k \in contentKeysOf(authCall.keys) : storage[k] # NoEntry

\* C26: a failed login leaves the previous session unchanged (user, api
\* credentials, stored content caches), and in every reachable state a user
\* that is not null implies an api client initialized with that user's
\* credentials
C26_FailedLoginKeepsSession ==
  /\ SessionKept
  /\ authUser # Null => InitializedFor(authUser)

\* C27: logout, or a login that switches accounts, leaves the favorites and
\* the watch history of every other identity unchanged in storage
C27_OtherUsersDataKept ==
  [][ \A a \in AuthAccounts :
        (authCall.previous # Null
           /\ << a.username, a.server_url >>
                # << authCall.previous.username, authCall.previous.server_url >>)
          => \A k \in UserDataKeys(a) : storage'[k] = storage[k] ]_vars

(***************************************************************************)
(* The retry guard of the VideoPlayer over time.  A promise of unloadAsync *)
(* settles and a timer that was started fires (weak fairness).             *)
(***************************************************************************)
FairPlayer ==
  /\ WF_vars(\E i \in Flows : UnloadResolves(i) \/ UnloadRejects(i))
  /\ WF_vars(\E i \in Flows : ReloadTimer(i))
  /\ WF_vars(LoadTimeout)

SpecPlayerFair == InitPlayer /\ [][NextPlayer]_vars /\ FairPlayer

\* C28: the retry guard is always released: once retryWithDifferentFormat has
\* set isInRetryFlow, the flag is cleared again, whatever the outcome of the
\* unload
C28_GuardReleased ==
  (mounted /\ isInRetryFlow) ~> (~mounted \/ ~isInRetryFlow)

(***************************************************************************)
(* Overlapping calls of HistoryService                                     *)
(***************************************************************************)
\* the stored history holds item
InHistory(item) ==
  \E x \in DOMAIN StoredHistory : SameIdentity(StoredHistory[x], JsonItem(item))

\* calls i and j are the only calls, both added an item and stored their
\* list, and j read the stored list before i wrote it
Overlapped(i, j) ==
  /\ DOMAIN historyCalls = {i, j} /\ i < j
  /\ \A c \in {i, j} :
       /\ historyCalls[c].pc = "done" /\ historyCalls[c].op = "add"
       /\ historyCalls[c].got # IOError /\ historyCalls[c].wrote
  /\ historyCalls[j].earlier[i] = "reading"

\* C29: when two addToHistory calls for different items overlap, both items
\* are in the stored history after both calls have completed
C29_NoLostUpdate ==
  \A i, j \in DOMAIN historyCalls :
    (/\ Overlapped(i, j)
     /\ ~SameIdentity(JsonItem(historyCalls[i].item), JsonItem(historyCalls[j].item)))
      => InHistory(historyCalls[i].item) /\ InHistory(historyCalls[j].item)

(***************************************************************************)
(* Superseded loads of useCachedData                                       *)
(***************************************************************************)
\* the effect of the hook of load i has run again, or logout has notified the
\* listeners after load i began: the dependencies of its hook have changed
Superseded(i) ==
  \/ \E j \in DOMAIN hookLoads : j > i /\ hookLoads[j].key = hookLoads[i].key
  \/ /\ hookLoads[i].before
     /\ authCall.op = "logout" /\ authCall.pc = "done"

====
